---- MODULE Spec2Model ----
(***************************************************************************)
(* A model of cmdcolor.py: the Color value algebra (class Color), the      *)
(* palette reduction functions (_reduce_256, _reduce_16) and the curses    *)
(* renderer (_set_color).                                                  *)
(*                                                                         *)
(* A Color is a record [fg, bg, flag, exc].  fg and bg are integers, with  *)
(* None (-1) for Python's None.  flag is the set of the flag bits that are *)
(* set (the source keeps them as bits of one int; only the five bits of    *)
(* _all_flags are ever used).  exc is "none" for a value; a call that      *)
(* raises is modelled by the outcome Raised(e), whose exc names the        *)
(* exception.                                                              *)
(*                                                                         *)
(* Packed 24-bit colours are 0xff000000 + rgb in the source.  The alpha    *)
(* byte only serves as a range discriminator (every test on it is n < 16,  *)
(* n < 256 or n > 256, and the channels are taken with & 0xff), so the     *)
(* model keeps one discriminator bit, 2^24, to stay inside the integer     *)
(* range of the model checker.                                             *)
(***************************************************************************)
EXTENDS Integers, Sequences, FiniteSets, TLC

VARIABLES a, b, op, res, eqv,     \* Color algebra: operands, operation, outcome
          n, r256, r16, r16via,   \* palette reduction: input and results
          cols, color, emitted,   \* curses renderer: _cols, argument, output
          platform, binding, con, \* backend: sys.platform, bound functions, _con
          _useColorFlag,          \* the policy set by enableColorPrinting
          ansiForced,             \* enableColorPrinting(C_COLOR_ANSI) was called
          q,                      \* the last introspection call and its result
          args, sep, file,        \* printc: arguments
          called, used, log, raised  \* printc: called, willPrintColor's
                                  \* answer, what was written, error raised

vars == <<a, b, op, res, eqv, n, r256, r16, r16via, cols, color, emitted,
          platform, binding, con, _useColorFlag, ansiForced, q,
          args, sep, file, called, used, log, raised>>
polVars == <<platform, binding, con, _useColorFlag, ansiForced, q>>
prVars == <<args, sep, file, called, used, log, raised>>
algVars == <<a, b, op, res, eqv>>
redVars == <<n, r256, r16, r16via>>
cursesVars == <<cols, color, emitted>>

\* ------------------------------------------------------------------ bounds
\* largest colour index of an operand built with Color.make (0..15 is the
\* 4-bit palette, 16 the first index of the 256 palette)
MaxIndex == 16

\* ---------------------------------------------------------------- constants
None == -1

C_BRIGHT_FLAG == "C_BRIGHT_FLAG"
_C_RESET_BRIGHT_FLAG == "_C_RESET_BRIGHT_FLAG"
_C_RESET_FG_FLAG == "_C_RESET_FG_FLAG"
_C_RESET_BG_FLAG == "_C_RESET_BG_FLAG"
_C_RESET_ALL_FLAG == "_C_RESET_ALL_FLAG"

_all_flags == {C_BRIGHT_FLAG, _C_RESET_BRIGHT_FLAG, _C_RESET_FG_FLAG,
               _C_RESET_BG_FLAG, _C_RESET_ALL_FLAG}

\* the discriminator of a packed 24-bit value (0xff000000 in the source)
ARGB == 2^24

\* ------------------------------------------------------------------- Color
make(fg_, bg_, flag_) == [fg |-> fg_, bg |-> bg_, flag |-> flag_, exc |-> "none"]

\* the outcome of a call that raises e instead of returning
Raised(e) == [fg |-> None, bg |-> None, flag |-> {}, exc |-> e]

\* Color._val: intensity is "None", "True" or "False"
_val(c, intensity) ==
    IF c < 16
    THEN IF intensity = "True" THEN (IF c >= 8 THEN c ELSE c + 8)   \* a | 8
         ELSE IF intensity = "False" THEN c % 8                     \* a & 7
         ELSE c
    ELSE c

fg(c, intensity) == make(_val(c, intensity), None, {})
bg(c, intensity) == make(None, _val(c, intensity), {})

fg6(r, g, bl) ==
    IF r > 5 \/ g > 5 \/ bl > 5 \/ r < 0 \/ g < 0 \/ bl < 0
    THEN Raised("ValueError")
    ELSE make(16 + bl + 6 * (g + 6 * r), None, {})

bg6(r, g, bl) ==
    IF r > 5 \/ g > 5 \/ bl > 5 \/ r < 0 \/ g < 0 \/ bl < 0
    THEN Raised("ValueError")
    ELSE make(None, 16 + bl + 6 * (g + 6 * r), {})

fg24(r, g, bl) ==
    IF r > 255 \/ g > 255 \/ bl > 255 \/ r < 0 \/ g < 0 \/ bl < 0
    THEN Raised("ValueError")
    ELSE make(ARGB + bl + 256 * (g + 256 * r), None, {})

bg24(r, g, bl) ==
    IF r > 255 \/ g > 255 \/ bl > 255 \/ r < 0 \/ g < 0 \/ bl < 0
    THEN Raised("ValueError")
    ELSE make(None, ARGB + bl + 256 * (g + 256 * r), {})

C_NO_COLOR == make(None, None, {})
C_RESET == make(None, None, {_C_RESET_ALL_FLAG})
C_BRIGHT == make(None, None, {C_BRIGHT_FLAG})
C_RESET_BRIGHT == make(None, None, {_C_RESET_BRIGHT_FLAG})
C_RESET_FG == make(None, None, {_C_RESET_FG_FLAG})
C_RESET_BG == make(None, None, {_C_RESET_BG_FLAG})

\* _apply_flags with a bug: the fold into 8..15 leaves C_BRIGHT_FLAG in
\* new_flags, so the folded colour is also bold
_apply_flags_fold_keeps_flag(c, new_flags) ==
    LET fg1 == IF _C_RESET_FG_FLAG \in new_flags THEN None ELSE c.fg
        bg1 == IF _C_RESET_BG_FLAG \in new_flags THEN None ELSE c.bg
        isB == C_BRIGHT_FLAG \in new_flags
        flag1 == IF isB THEN c.flag \ {_C_RESET_BRIGHT_FLAG} ELSE c.flag
        fold == isB /\ fg1 # None /\ fg1 < 8
        nf1 == new_flags
        fg2 == IF fold THEN fg1 + 8 ELSE fg1
        isRB == _C_RESET_BRIGHT_FLAG \in nf1
        hadB == C_BRIGHT_FLAG \in flag1
        raises == isRB /\ ~hadB /\ fg2 = None
        unfold == isRB /\ ~hadB /\ fg2 # None /\ 8 <= fg2 /\ fg2 < 16
        flag2 == IF isRB /\ hadB THEN flag1 \ {C_BRIGHT_FLAG} ELSE flag1
        nf2 == IF unfold THEN nf1 \ {_C_RESET_BRIGHT_FLAG} ELSE nf1
        fg3 == IF unfold THEN fg2 - 8 ELSE fg2
    IN IF raises THEN Raised("TypeError")
       ELSE make(fg3, bg1, flag2 \cup nf2)

\* _apply_flags with a bug: C_BRIGHT_FLAG on a colour 8..15 is dropped
\* instead of setting the bold attribute
_apply_flags_no_bold_on_bright(c, new_flags) ==
    LET fg1 == IF _C_RESET_FG_FLAG \in new_flags THEN None ELSE c.fg
        bg1 == IF _C_RESET_BG_FLAG \in new_flags THEN None ELSE c.bg
        isB == C_BRIGHT_FLAG \in new_flags
        flag1 == IF isB THEN c.flag \ {_C_RESET_BRIGHT_FLAG} ELSE c.flag
        fold == isB /\ fg1 # None /\ fg1 < 8
        nf1 == IF isB /\ fg1 # None /\ fg1 < 16
               THEN new_flags \ {C_BRIGHT_FLAG} ELSE new_flags
        fg2 == IF fold THEN fg1 + 8 ELSE fg1
        isRB == _C_RESET_BRIGHT_FLAG \in nf1
        hadB == C_BRIGHT_FLAG \in flag1
        raises == isRB /\ ~hadB /\ fg2 = None
        unfold == isRB /\ ~hadB /\ fg2 # None /\ 8 <= fg2 /\ fg2 < 16
        flag2 == IF isRB /\ hadB THEN flag1 \ {C_BRIGHT_FLAG} ELSE flag1
        nf2 == IF unfold THEN nf1 \ {_C_RESET_BRIGHT_FLAG} ELSE nf1
        fg3 == IF unfold THEN fg2 - 8 ELSE fg2
    IN IF raises THEN Raised("TypeError")
       ELSE make(fg3, bg1, flag2 \cup nf2)

\* _apply_flags with a bug: the fold back from 8..15 leaves
\* _C_RESET_BRIGHT_FLAG in new_flags
_apply_flags_unfold_keeps_flag(c, new_flags) ==
    LET fg1 == IF _C_RESET_FG_FLAG \in new_flags THEN None ELSE c.fg
        bg1 == IF _C_RESET_BG_FLAG \in new_flags THEN None ELSE c.bg
        isB == C_BRIGHT_FLAG \in new_flags
        flag1 == IF isB THEN c.flag \ {_C_RESET_BRIGHT_FLAG} ELSE c.flag
        fold == isB /\ fg1 # None /\ fg1 < 8
        nf1 == IF fold THEN new_flags \ {C_BRIGHT_FLAG} ELSE new_flags
        fg2 == IF fold THEN fg1 + 8 ELSE fg1
        isRB == _C_RESET_BRIGHT_FLAG \in nf1
        hadB == C_BRIGHT_FLAG \in flag1
        raises == isRB /\ ~hadB /\ fg2 = None
        unfold == isRB /\ ~hadB /\ fg2 # None /\ 8 <= fg2 /\ fg2 < 16
        flag2 == IF isRB /\ hadB THEN flag1 \ {C_BRIGHT_FLAG} ELSE flag1
        nf2 == nf1
        fg3 == IF unfold THEN fg2 - 8 ELSE fg2
    IN IF raises THEN Raised("TypeError")
       ELSE make(fg3, bg1, flag2 \cup nf2)

\* _apply_flags with a bug: C_BRIGHT_FLAG does not clear a pending
\* _C_RESET_BRIGHT_FLAG
_apply_flags_keeps_reset_bright(c, new_flags) ==
    LET fg1 == IF _C_RESET_FG_FLAG \in new_flags THEN None ELSE c.fg
        bg1 == IF _C_RESET_BG_FLAG \in new_flags THEN None ELSE c.bg
        isB == C_BRIGHT_FLAG \in new_flags
        flag1 == c.flag
        fold == isB /\ fg1 # None /\ fg1 < 8
        nf1 == IF fold THEN new_flags \ {C_BRIGHT_FLAG} ELSE new_flags
        fg2 == IF fold THEN fg1 + 8 ELSE fg1
        isRB == _C_RESET_BRIGHT_FLAG \in nf1
        hadB == C_BRIGHT_FLAG \in flag1
        raises == isRB /\ ~hadB /\ fg2 = None
        unfold == isRB /\ ~hadB /\ fg2 # None /\ 8 <= fg2 /\ fg2 < 16
        flag2 == IF isRB /\ hadB THEN flag1 \ {C_BRIGHT_FLAG} ELSE flag1
        nf2 == IF unfold THEN nf1 \ {_C_RESET_BRIGHT_FLAG} ELSE nf1
        fg3 == IF unfold THEN fg2 - 8 ELSE fg2
    IN IF raises THEN Raised("TypeError")
       ELSE make(fg3, bg1, flag2 \cup nf2)

\* Color._apply_flags, applied to a copy c; the steps follow the source's
\* statements in order
_apply_flags(c, new_flags) ==
    LET fg1 == IF _C_RESET_FG_FLAG \in new_flags THEN None ELSE c.fg
        bg1 == IF _C_RESET_BG_FLAG \in new_flags THEN None ELSE c.bg
        isB == C_BRIGHT_FLAG \in new_flags
        flag1 == IF isB THEN c.flag \ {_C_RESET_BRIGHT_FLAG} ELSE c.flag
        fold == isB /\ fg1 # None /\ fg1 < 8
        nf1 == IF fold THEN new_flags \ {C_BRIGHT_FLAG} ELSE new_flags
        fg2 == IF fold THEN fg1 + 8 ELSE fg1
        isRB == _C_RESET_BRIGHT_FLAG \in nf1
        hadB == C_BRIGHT_FLAG \in flag1
        \* 8 <= self.fg < 16 with self.fg None: TypeError
        raises == isRB /\ ~hadB /\ fg2 = None
        unfold == isRB /\ ~hadB /\ fg2 # None /\ 8 <= fg2 /\ fg2 < 16
        flag2 == IF isRB /\ hadB THEN flag1 \ {C_BRIGHT_FLAG} ELSE flag1
        nf2 == IF unfold THEN nf1 \ {_C_RESET_BRIGHT_FLAG} ELSE nf1
        fg3 == IF unfold THEN fg2 - 8 ELSE fg2
    IN IF raises THEN Raised("TypeError")
       ELSE make(fg3, bg1, flag2 \cup nf2)

\* _add with a bug: no early return for _C_RESET_ALL_FLAG, which is
\* applied like any other flag
_add_no_short_circuit(x, y) ==
    LET flag0 == x.flag \ {_C_RESET_ALL_FLAG}
        fg1 == IF y.fg # None THEN y.fg ELSE x.fg
        flag1 == IF y.fg # None THEN flag0 \ {_C_RESET_FG_FLAG} ELSE flag0
        bg1 == IF y.bg # None THEN y.bg ELSE x.bg
        flag2 == IF y.bg # None THEN flag1 \ {_C_RESET_BG_FLAG} ELSE flag1
    IN _apply_flags(make(fg1, bg1, flag2), y.flag)

\* _add with a bug: the flags x already carries are applied again after
\* y's colours are copied, so an earlier C_BRIGHT_FLAG folds into y's fg
_add_refolds(x, y) ==
    IF _C_RESET_ALL_FLAG \in y.flag
    THEN make(None, None, {_C_RESET_ALL_FLAG})
    ELSE LET flag0 == x.flag \ {_C_RESET_ALL_FLAG}
             fg1 == IF y.fg # None THEN y.fg ELSE x.fg
             flag1 == IF y.fg # None THEN flag0 \ {_C_RESET_FG_FLAG} ELSE flag0
             bg1 == IF y.bg # None THEN y.bg ELSE x.bg
             flag2 == IF y.bg # None THEN flag1 \ {_C_RESET_BG_FLAG} ELSE flag1
         IN _apply_flags(make(fg1, bg1, {}), flag2 \cup y.flag)

\* Color._add: apply y after x
_add(x, y) ==
    IF _C_RESET_ALL_FLAG \in y.flag
    THEN make(None, None, {_C_RESET_ALL_FLAG})
    ELSE LET flag0 == x.flag \ {_C_RESET_ALL_FLAG}
             fg1 == IF y.fg # None THEN y.fg ELSE x.fg
             flag1 == IF y.fg # None THEN flag0 \ {_C_RESET_FG_FLAG} ELSE flag0
             bg1 == IF y.bg # None THEN y.bg ELSE x.bg
             flag2 == IF y.bg # None THEN flag1 \ {_C_RESET_BG_FLAG} ELSE flag1
         IN _apply_flags(make(fg1, bg1, flag2), y.flag)

\* Color.__add__: between two Colors no AttributeError arises, so the
\* outcome is that of _add (a TypeError of _apply_flags is not caught)
__add__(x, y) == _add(x, y)

with_fg(c, i, intensity) == make(_val(i, intensity), c.bg, {})
with_bg(c, i, intensity) == make(c.fg, _val(i, intensity), c.flag)

bright(c) == _apply_flags(c, {C_BRIGHT_FLAG})

dark(c) ==
    make(IF c.fg # None /\ c.fg # 0 /\ c.fg < 16 THEN c.fg % 8 ELSE c.fg,
         c.bg, {})

bright_bg(c) == with_bg(c, IF c.bg = None \/ c.bg = 0 THEN 0 ELSE c.bg, "True")
dark_bg(c) == with_bg(c, IF c.bg = None \/ c.bg = 0 THEN 0 ELSE c.bg, "False")

\* Color.__eq__(a, b): the body reads the name self, which is bound neither
\* in the function nor in the module, so every call raises NameError
__eq__(x, y) == [ret |-> FALSE, exc |-> "NameError"]


\* ------------------------------------------------------- palette reduction
Min3(x, y, z) == IF x <= y /\ x <= z THEN x ELSE IF y <= z THEN y ELSE z
Max3(x, y, z) == IF x >= y /\ x >= z THEN x ELSE IF y >= z THEN y ELSE z
Max2(x, y) == IF x >= y THEN x ELSE y

\* _reduce_256(n): a colour value of the 256-colour palette
_reduce_256(m) ==
    IF m < 256 THEN m
    ELSE LET r == (m \div 65536) % 256          \* (n >> 16) & 0xff
             g == (m \div 256) % 256            \* (n >> 8) & 0xff
             bl == m % 256                      \* n & 0xff
             a1 == Min3(r, g, bl)
             a2 == Max3(r, g, bl)
         IN IF a2 - a1 < 20                     \* abs(a1 - a2) < 20
            THEN (IF 232 + (a1 + a2) \div 16 > 255 THEN 255
                  ELSE 232 + (a1 + a2) \div 16)
            ELSE 16 + ((bl + 20) \div 51)
                    + 6 * (((g + 20) \div 51) + 6 * ((r + 20) \div 51))

\* _reduce_16(n): a colour value between 0 and 15.  The names red, green
\* and blue are the source's: for a packed value red is taken from the low
\* byte and blue from bits 16..23
_reduce_16(m) ==
    IF m < 16 THEN m
    ELSE IF m > 231 /\ m < 256
    THEN (IF m < 235 THEN 0 ELSE IF m < 242 THEN 8 ELSE IF m < 251 THEN 7 ELSE 15)
    ELSE LET m16 == m - 16
             red == IF m > 256 THEN ((m % 256) + 20) \div 51
                    ELSE m16 \div 36
             green == IF m > 256 THEN (((m \div 256) % 256) + 20) \div 51
                      ELSE (m16 - 36 * red) \div 6
             blue == IF m > 256 THEN (((m \div 65536) % 256) + 20) \div 51
                     ELSE (m16 - 36 * red) - 6 * green
             c1 == IF blue >= Max2(green, red) - 1 THEN 1 ELSE 0
             c2 == IF green >= Max2(blue, red) - 1 THEN 2 ELSE 0
             c4 == IF red >= Max2(blue, green) - 1 THEN 4 ELSE 0
             col == c1 + c2 + c4
             val == Max3(blue, green, red)
         IN IF col = 7 /\ val = 0 THEN 0
            ELSE IF col = 7 /\ val < 3 THEN 8
            ELSE IF val > 4 THEN col + 8          \* col | 8, col < 8
            ELSE col

\* --------------------------------------------------------- curses renderer
\* what _print_el writes: a terminfo capability with its argument, or an
\* escape sequence ESC[<arg>m
Out(cap_, arg_) == [cap |-> cap_, arg |-> arg_]

\* ((c & 1) << 2) + (c & 2) + ((c & 4) >> 2), for c < 16
AnsiBits(c) == (c % 2) * 4 + ((c \div 2) % 2) * 2 + ((c \div 4) % 2)

\* _can_use(file) of the curses backend
_can_use(_cols) == _cols # 0 /\ _cols >= 8

\* the foreground part of _set_color (curses)
SetFg(c, _cols) ==
    IF _C_RESET_FG_FLAG \in c.flag THEN <<Out("esc", 39)>>
    ELSE IF c.fg # None
    THEN LET f == IF _cols <= 256 THEN _reduce_256(c.fg)
                  ELSE IF _cols <= 16 THEN _reduce_16(c.fg)
                  ELSE c.fg
         IN IF f < 16
            THEN IF f >= 8
                 THEN IF _cols >= 16
                      THEN <<Out("setaf", AnsiBits(f) + 8)>>
                      ELSE <<Out("bold", None), Out("setaf", AnsiBits(f))>>
                 ELSE <<Out("setaf", AnsiBits(f))>>
            ELSE <<Out("setaf", f)>>
    ELSE <<>>

\* the background part of _set_color (curses)
SetBg(c, _cols) ==
    IF _C_RESET_BG_FLAG \in c.flag THEN <<Out("esc", 49)>>
    ELSE IF c.bg # None
    THEN LET g == IF _cols <= 256 THEN _reduce_256(c.bg)
                  ELSE IF _cols <= 16 THEN _reduce_16(c.bg)
                  ELSE c.bg
         IN IF g < 16
            THEN IF _cols >= 16 /\ g >= 8                 \* bg & 8, bg < 16
                 THEN <<Out("setab", AnsiBits(g) + 8)>>
                 ELSE <<Out("setab", AnsiBits(g))>>
            ELSE <<Out("setab", g)>>
    ELSE <<>>

\* _set_color(color, f) of the curses backend: everything it writes
_set_color(c, _cols) ==
    IF _C_RESET_ALL_FLAG \in c.flag THEN <<Out("sgr0", None)>>
    ELSE (IF C_BRIGHT_FLAG \in c.flag THEN <<Out("bold", None)>>
          ELSE IF _C_RESET_BRIGHT_FLAG \in c.flag THEN <<Out("esc", 22)>>
          ELSE <<>>)
         \o SetFg(c, _cols) \o SetBg(c, _cols)

\* Color.__bool__
__bool__(c) == c.fg # None \/ c.bg # None \/ c.flag # {}

\* ------------------------------------------------------------ input sets
Intensities == {"None", "True", "False"}

\* arguments of fg(), with_fg() and of bg(), with_bg()
FgArgs == {2}
BgArgs == {1}

\* the values of the public constructors and the module's singletons
Constructed ==
    {fg(i, t) : i \in FgArgs, t \in Intensities}
    \cup {bg(i, t) : i \in BgArgs, t \in Intensities}
    \cup {fg6(5, 0, 0), bg6(0, 0, 5), fg24(255, 0, 0), bg24(0, 0, 255)}
    \cup {C_NO_COLOR, C_RESET, C_BRIGHT, C_RESET_BRIGHT, C_RESET_FG, C_RESET_BG}

\* operands built with Color.make(fg, bg, flag)
MadeA == {make(f, g, fl) : f \in {None} \cup 0..MaxIndex, g \in {None, 1},
                          fl \in SUBSET _all_flags}
MadeB == {make(f, g, fl) : f \in {None, 2}, g \in {None, 1},
                          fl \in SUBSET _all_flags}


\* channel values of the packed 24-bit inputs
ChanVals == {0, 30, 31, 82, 128, 200, 255}
Packed == {ARGB + bl + 256 * (g + 256 * r) : r \in ChanVals, g \in ChanVals, bl \in ChanVals}

\* terminfo colour counts under which the curses backend is bound
\* (_cols <= 16, or any count with CMDCOLOR_CURSES=1); -1: no such capability
CursesCols == {-1, 8, 16, 256}

\* colours handed to the renderer
RenderIdx == {None, 2, 10, 196, ARGB + 255 * 65536}
RenderColors == {make(f, g, fl) : f \in RenderIdx, g \in RenderIdx,
                                 fl \in SUBSET _all_flags}

\* -------------------------------------------------- policy and backends
C_COLOR_OFF == "off"
C_COLOR_ON == "on"
C_COLOR_AUTO == "auto"
C_COLOR_ANSI == "ansi"
C_COLOR_OPTION_LIST == {C_COLOR_OFF, C_COLOR_ON, C_COLOR_AUTO, C_COLOR_ANSI}

\* a file handed to the module: which object it is (name "None" is
\* Python's None) and what its isatty() answers
File(name_, tty_) == [name |-> name_, tty |-> tty_]
Files == {File("stdout", TRUE), File("stdout", FALSE), File("stderr", TRUE),
          File("other", TRUE), File("other", FALSE), File("None", FALSE)}

\* the handles of _std_h
StdHandles == {"stdout", "stderr"}

\* _Con.__init__: istty and use_ansi of a standard handle, from what the
\* console API answers (GetConsoleScreenBufferInfo, GetConsoleMode,
\* SetConsoleMode) and whether CMDCOLOR_ANSI is '1'
_Con(console, envAnsi, getOk, setOk) ==
    IF console /\ envAnsi
    THEN [istty |-> getOk, use_ansi |-> getOk /\ setOk]
    ELSE [istty |-> console, use_ansi |-> FALSE]

\* _con on a platform other than win32, where it does not exist
NoCon == [h \in StdHandles |-> [istty |-> FALSE, use_ansi |-> FALSE]]

\* _istty(file): not rebound by _use_ansi_fallback
_istty(f) ==
    IF platform = "win32"
    THEN f.name \in StdHandles /\ con[f.name].istty
    ELSE f.tty

\* _can_use(file), as bound
CanUse(f) ==
    IF binding = "ansi" THEN TRUE
    ELSE IF binding = "win32" THEN _istty(f)
    ELSE _can_use(cols)

\* _colors(file), as bound
_colors(f) ==
    IF binding = "ansi" THEN 16777216                       \* 0x1000000
    ELSE IF binding = "win32"
    THEN (IF f.name \notin StdHandles THEN 1
          ELSE IF con[f.name].use_ansi THEN 16777216 ELSE 16)
    ELSE cols

\* _colorMode(file), as bound
_colorMode(f) ==
    IF binding = "ansi" THEN "ANSI"
    ELSE IF binding = "win32"
    THEN (IF f.name \notin StdHandles THEN "None"
          ELSE IF con[f.name].use_ansi THEN "ANSI" ELSE "win32")
    ELSE IF cols >= 8 THEN "Curses" ELSE "None"

canPrintColor(f) == CanUse(f)

numColors(f) == IF ~CanUse(f) THEN 1 ELSE _colors(f)

colorMode(f) == _colorMode(f)

\* willPrintColor with a bug: the policy is consulted without asking
\* _can_use first
willPrintColor_skips_can_use(f) ==
    IF _useColorFlag = C_COLOR_OFF THEN FALSE
    ELSE IF _useColorFlag = C_COLOR_ON THEN TRUE
    ELSE IF f.name = "None" THEN FALSE
    ELSE _istty(f)

willPrintColor(f) ==
    IF ~CanUse(f) THEN FALSE
    ELSE IF _useColorFlag = C_COLOR_OFF THEN FALSE
    ELSE IF _useColorFlag = C_COLOR_ON THEN TRUE
    ELSE IF f.name = "None" THEN FALSE
    ELSE _istty(f)

\* the binding the module's import leaves: win32 on Windows; elsewhere
\* curses when it imports and use_curses holds, else the ANSI fallback
ImportBinding(platform_, importOk, _cols, envCurses) ==
    IF platform_ = "win32" THEN "win32"
    ELSE IF importOk /\ (_cols <= 16 \/ envCurses) THEN "curses"
    ELSE "ansi"

\* the binding after enableColorPrinting(flag), with a bug: any other
\* flag than C_COLOR_ANSI binds the platform's own backend again
BindingAfter_rebinds_platform(flag_) ==
    IF flag_ = C_COLOR_ANSI THEN "ansi"
    ELSE IF platform = "win32" THEN "win32"
    ELSE IF cols # 0 THEN "curses" ELSE "ansi"

\* the binding after enableColorPrinting(flag): _use_ansi_fallback binds
\* the ANSI functions, nothing binds the others back
BindingAfter(flag_) ==
    IF flag_ = C_COLOR_ANSI THEN "ansi" ELSE binding

\* an introspection call and what it returned
Query(fn_, f, bool_, num_, str_) ==
    [fn |-> fn_, file |-> f, bool |-> bool_, num |-> num_, str |-> str_]
NoQuery == Query("none", File("None", FALSE), FALSE, 0, "")

\* ------------------------------------------------------------------ printc
\* the longest argument list of a printc call
MaxArgs == 3

\* an argument of printc: a Color or any other object; fails says that
\* emitting it raises (str(s) for an object, _set_color for a Color)
Value(text_, fails_) ==
    [kind |-> "value", c |-> C_NO_COLOR, text |-> text_, fails |-> fails_]
ColorArg(c_, fails_) ==
    [kind |-> "color", c |-> c_, text |-> "Color", fails |-> fails_]

ArgAlphabet ==
    { Value("x", FALSE), Value("y", FALSE), Value("bad", TRUE),
      ColorArg(fg(2, "None"), FALSE), ColorArg(C_NO_COLOR, FALSE),
      ColorArg(bg(1, "None"), TRUE) }

ArgLists == UNION { [1..k -> ArgAlphabet] : k \in 0..MaxArgs }

Seps == {" ", ","}
End == "\n"

\* what reaches the file, call by call: _print_el of a separator, of a
\* value's text, of the terminator; _set_color of a Color. arg is the
\* position of the argument the call is made for, 0 for none.
SepEv(i, sep_) == [ev |-> "sep", arg |-> i, c |-> C_NO_COLOR, s |-> sep_]
TextEv(i, text_) == [ev |-> "text", arg |-> i, c |-> C_NO_COLOR, s |-> text_]
EndEv == [ev |-> "end", arg |-> 0, c |-> C_NO_COLOR, s |-> End]
SetColorEv(i, c_) == [ev |-> "set_color", arg |-> i, c |-> c_, s |-> ""]

Outcome(log_, raised_) == [log |-> log_, raised |-> raised_]
Then(evs, o) == Outcome(evs \o o.log, o.raised)

IsNotColor(s) == s.kind # "color"

Strip_keeps_colors(args_) ==
    [i \in 1..Len(args_) |->
        IF args_[i].kind = "color" THEN Value(args_[i].text, FALSE) ELSE args_[i]]

\* [s for s in args if type(s) is not Color]
Strip(args_) == SelectSeq(args_, IsNotColor)

\* the builtin print(*ss, sep=sep_, end=End): objects from position i on
RECURSIVE builtin_print_from(_, _, _)
builtin_print_from(ss, i, sep_) ==
    IF i > Len(ss) THEN Outcome(<<EndEv>>, FALSE)
    ELSE LET pre == IF i > 1 THEN <<SepEv(i, sep_)>> ELSE <<>>
         IN  IF ss[i].fails THEN Outcome(pre, TRUE)
             ELSE Then(pre \o <<TextEv(i, ss[i].text)>>,
                       builtin_print_from(ss, i + 1, sep_))

builtin_print(ss, sep_) == builtin_print_from(ss, 1, sep_)

NoSep == "None"

RECURSIVE loop_color_clears_sep(_, _, _, _)
loop_color_clears_sep(args_, i, sep_, sep0) ==
    IF i > Len(args_) THEN Outcome(<<>>, FALSE)
    ELSE LET s == args_[i]
             pre == IF sep_ # NoSep THEN <<SepEv(i, sep_)>> ELSE <<>>
         IN  IF s.kind = "color"
             THEN IF ~__bool__(s.c) THEN loop_color_clears_sep(args_, i + 1, NoSep, sep0)
                  ELSE IF s.fails THEN Outcome(<<SetColorEv(i, s.c)>>, TRUE)
                  ELSE Then(<<SetColorEv(i, s.c)>>,
                            loop_color_clears_sep(args_, i + 1, NoSep, sep0))
             ELSE IF s.fails THEN Outcome(pre, TRUE)
                  ELSE Then(pre \o <<TextEv(i, s.text)>>,
                            loop_color_clears_sep(args_, i + 1, sep0, sep0))

\* the for loop of printc from argument i on, sep_ the pending separator
RECURSIVE loop(_, _, _, _)
loop(args_, i, sep_, sep0) ==
    IF i > Len(args_) THEN Outcome(<<>>, FALSE)
    ELSE LET s == args_[i]
             pre == IF sep_ # NoSep THEN <<SepEv(i, sep_)>> ELSE <<>>
         IN  IF s.kind = "color"
             THEN IF ~__bool__(s.c) THEN loop(args_, i + 1, sep_, sep0)
                  ELSE IF s.fails THEN Outcome(<<SetColorEv(i, s.c)>>, TRUE)
                  ELSE Then(<<SetColorEv(i, s.c)>>, loop(args_, i + 1, sep_, sep0))
             ELSE IF s.fails THEN Outcome(pre, TRUE)
                  ELSE Then(pre \o <<TextEv(i, s.text)>>,
                            loop(args_, i + 1, sep0, sep0))

printc_coloured_no_finally(args_, sep0) ==
    LET body == loop(args_, 1, NoSep, sep0)
    IN  IF body.raised THEN body
        ELSE Outcome(body.log \o <<SetColorEv(0, C_RESET), EndEv>>, FALSE)

\* the coloured path of printc: try the loop, finally reset, then end
printc_coloured(args_, sep0) ==
    LET body == loop(args_, 1, NoSep, sep0)
    IN  Outcome(body.log \o <<SetColorEv(0, C_RESET)>>
                         \o (IF body.raised THEN <<>> ELSE <<EndEv>>),
                body.raised)

\* printc(*args, sep=sep_, file=f)
printc(args_, sep_, f) ==
    IF ~willPrintColor(f) THEN builtin_print(Strip(args_), sep_)
    ELSE printc_coloured(args_, sep_)

PrintFiles == {File("stdout", TRUE), File("stdout", FALSE)}

\* ------------------------------------------------------- the other variables
\* values of the variables a specification does not use
AlgIdle == a = C_NO_COLOR /\ b = C_NO_COLOR /\ op = "init" /\ res = C_NO_COLOR
           /\ eqv = FALSE
RedIdle == n = 0 /\ r256 = None /\ r16 = None /\ r16via = None
CursesIdle == cols = 0 /\ color = C_NO_COLOR /\ emitted = <<>>
RenderIdle == color = C_NO_COLOR /\ emitted = <<>>
PolIdle == platform = "unix" /\ binding = "ansi" /\ con = NoCon
           /\ _useColorFlag = C_COLOR_AUTO /\ ansiForced = FALSE /\ q = NoQuery
PrintIdle == args = <<>> /\ sep = " " /\ file = File("None", FALSE)
             /\ called = FALSE /\ used = FALSE /\ log = <<>> /\ raised = FALSE

\* ----------------------------------------------- Color algebra: operations
\* the operations whose outcome is a Color
ColorOps == {"add", "bright", "dark", "with_fg", "with_bg", "bright_bg", "dark_bg"}

\* a + b
Add ==
    /\ op' = "add"
    /\ res' = __add__(a, b)
    /\ eqv' = FALSE
    /\ UNCHANGED <<a, b, redVars, cursesVars, polVars, prVars>>

\* a.bright()
Bright ==
    /\ op' = "bright"
    /\ res' = bright(a)
    /\ eqv' = FALSE
    /\ UNCHANGED <<a, b, redVars, cursesVars, polVars, prVars>>

\* a.dark()
Dark ==
    /\ op' = "dark"
    /\ res' = dark(a)
    /\ eqv' = FALSE
    /\ UNCHANGED <<a, b, redVars, cursesVars, polVars, prVars>>

\* a.with_fg(i, intensity)
WithFg ==
    /\ \E i \in FgArgs, t \in Intensities : res' = with_fg(a, i, t)
    /\ op' = "with_fg"
    /\ eqv' = FALSE
    /\ UNCHANGED <<a, b, redVars, cursesVars, polVars, prVars>>

\* a.with_bg(i, intensity)
WithBg ==
    /\ \E i \in BgArgs, t \in Intensities : res' = with_bg(a, i, t)
    /\ op' = "with_bg"
    /\ eqv' = FALSE
    /\ UNCHANGED <<a, b, redVars, cursesVars, polVars, prVars>>

\* a.bright_bg()
BrightBg ==
    /\ op' = "bright_bg"
    /\ res' = bright_bg(a)
    /\ eqv' = FALSE
    /\ UNCHANGED <<a, b, redVars, cursesVars, polVars, prVars>>

\* a.dark_bg()
DarkBg ==
    /\ op' = "dark_bg"
    /\ res' = dark_bg(a)
    /\ eqv' = FALSE
    /\ UNCHANGED <<a, b, redVars, cursesVars, polVars, prVars>>

\* a == b
Eq ==
    /\ op' = "eq"
    /\ LET r == __eq__(a, b)
       IN /\ res' = (IF r.exc = "none" THEN C_NO_COLOR ELSE Raised(r.exc))
          /\ eqv' = (r.exc = "none" /\ r.ret)
    /\ UNCHANGED <<a, b, redVars, cursesVars, polVars, prVars>>

\* a public constructor or singleton becomes an operand
Construct ==
    /\ \E c \in Constructed : \/ a' = c /\ b' = b
                              \/ b' = c /\ a' = a
    /\ op' = "construct"
    /\ res' = C_NO_COLOR
    /\ eqv' = FALSE
    /\ UNCHANGED <<redVars, cursesVars, polVars, prVars>>

\* the Color an operation returned becomes an operand of a later call
\* (a + b + c, a.bright() + b, ...)
Reuse ==
    /\ op \in ColorOps
    /\ res.exc = "none"
    /\ \/ a' = res /\ b' = b
       \/ b' = res /\ a' = a
    /\ op' = "reuse"
    /\ res' = C_NO_COLOR
    /\ eqv' = FALSE
    /\ UNCHANGED <<redVars, cursesVars, polVars, prVars>>

\* Colors reachable from the public constructors and singletons
Init ==
    /\ AlgIdle
    /\ RedIdle
    /\ CursesIdle
    /\ PolIdle
    /\ PrintIdle

Next ==
    \/ Construct
    \/ Reuse
    \/ Add
    \/ Bright
    \/ Dark
    \/ WithFg
    \/ WithBg
    \/ BrightBg
    \/ DarkBg
    \/ Eq

Spec == Init /\ [][Next]_vars

\* Colors built with Color.make from any fields, one operation applied
InitMake ==
    /\ a \in MadeA
    /\ b \in MadeB
    /\ op = "init"
    /\ res = C_NO_COLOR
    /\ eqv = FALSE
    /\ RedIdle
    /\ CursesIdle
    /\ PolIdle
    /\ PrintIdle

NextMake ==
    \/ Add
    \/ Bright
    \/ Eq

SpecMake == InitMake /\ [][NextMake]_vars

\* ------------------------------------------------ palette reduction: steps
Reduce256 ==
    /\ r256 = None
    /\ r256' = _reduce_256(n)
    /\ UNCHANGED <<n, r16, r16via, algVars, cursesVars, polVars, prVars>>

Reduce16 ==
    /\ r16 = None
    /\ r16' = _reduce_16(n)
    /\ UNCHANGED <<n, r256, r16via, algVars, cursesVars, polVars, prVars>>

Reduce16Of256 ==
    /\ r256 # None
    /\ r16via = None
    /\ r16via' = _reduce_16(r256)
    /\ UNCHANGED <<n, r256, r16, algVars, cursesVars, polVars, prVars>>

InitReduce ==
    /\ n \in Packed
    /\ r256 = None /\ r16 = None /\ r16via = None
    /\ AlgIdle
    /\ CursesIdle
    /\ PolIdle
    /\ PrintIdle

NextReduce ==
    \/ Reduce256
    \/ Reduce16
    \/ Reduce16Of256

SpecReduce == InitReduce /\ [][NextReduce]_vars

\* ------------------------------------------------- curses renderer: steps
\* printc forwards a non-empty Color to _set_color when willPrintColor
\* holds, which needs _can_use
SetColor ==
    /\ _can_use(cols)
    /\ \E c \in RenderColors :
          /\ __bool__(c)
          /\ color' = c
          /\ emitted' = _set_color(c, cols)
    /\ UNCHANGED <<cols, algVars, redVars, polVars, prVars>>

InitCurses ==
    /\ cols \in CursesCols
    /\ color = C_NO_COLOR
    /\ emitted = <<>>
    /\ AlgIdle
    /\ RedIdle
    /\ PolIdle
    /\ PrintIdle

NextCurses == SetColor

SpecCurses == InitCurses /\ [][NextCurses]_vars

\* --------------------------------------------- policy and backends: steps
\* the state the import of the module leaves
InitPlatform ==
    /\ \/ /\ platform = "win32"
          /\ binding = ImportBinding("win32", FALSE, 0, FALSE)
          /\ cols = 0
          /\ \E envAnsi \in BOOLEAN, console, getOk, setOk \in [StdHandles -> BOOLEAN] :
                con = [h \in StdHandles |->
                          _Con(console[h], envAnsi, getOk[h], setOk[h])]
       \/ /\ platform = "unix"
          /\ con = NoCon
          /\ \E importOk, envCurses \in BOOLEAN, _cols \in CursesCols :
                /\ binding = ImportBinding("unix", importOk, _cols, envCurses)
                /\ cols = IF importOk THEN _cols ELSE 0
    /\ _useColorFlag = C_COLOR_AUTO
    /\ ansiForced = FALSE
    /\ q = NoQuery

\* enableColorPrinting(flag)
EnableColorPrinting ==
    /\ \E flag_ \in C_COLOR_OPTION_LIST \cup {"always"} :
          IF flag_ \notin C_COLOR_OPTION_LIST
          THEN /\ q' = Query("enableColorPrinting", File("None", FALSE),
                             FALSE, 0, "ValueError")
               /\ UNCHANGED <<_useColorFlag, binding, ansiForced>>
          ELSE /\ _useColorFlag' = (IF flag_ = C_COLOR_ANSI THEN C_COLOR_ON ELSE flag_)
               /\ binding' = BindingAfter(flag_)
               /\ ansiForced' = (ansiForced \/ flag_ = C_COLOR_ANSI)
               /\ q' = Query("enableColorPrinting", File("None", FALSE),
                             FALSE, 0, "")
    /\ UNCHANGED <<platform, con, algVars, redVars, cursesVars, prVars>>

\* canPrintColor(file)
CanPrintColor ==
    /\ \E f \in Files : q' = Query("canPrintColor", f, canPrintColor(f), 0, "")
    /\ UNCHANGED <<platform, binding, con, _useColorFlag, ansiForced,
                   algVars, redVars, cursesVars, prVars>>

\* numColors(file)
NumColors ==
    /\ \E f \in Files : q' = Query("numColors", f, FALSE, numColors(f), "")
    /\ UNCHANGED <<platform, binding, con, _useColorFlag, ansiForced,
                   algVars, redVars, cursesVars, prVars>>

\* colorMode(file)
ColorMode ==
    /\ \E f \in Files : q' = Query("colorMode", f, FALSE, 0, colorMode(f))
    /\ UNCHANGED <<platform, binding, con, _useColorFlag, ansiForced,
                   algVars, redVars, cursesVars, prVars>>

\* willPrintColor(file)
WillPrintColor ==
    /\ \E f \in Files : q' = Query("willPrintColor", f, willPrintColor(f), 0, "")
    /\ UNCHANGED <<platform, binding, con, _useColorFlag, ansiForced,
                   algVars, redVars, cursesVars, prVars>>

InitPolicy ==
    /\ InitPlatform
    /\ AlgIdle
    /\ RedIdle
    /\ RenderIdle
    /\ PrintIdle

NextPolicy ==
    \/ EnableColorPrinting
    \/ CanPrintColor
    \/ NumColors
    \/ ColorMode
    \/ WillPrintColor

SpecPolicy == InitPolicy /\ [][NextPolicy]_vars

\* ------------------------------------------------------------ printc: steps
\* one call printc(*args, sep=sep, file=file), made once
Printc ==
    /\ ~called
    /\ called' = TRUE
    /\ used' = willPrintColor(file)
    /\ log' = printc(args, sep, file).log
    /\ raised' = printc(args, sep, file).raised
    /\ UNCHANGED <<args, sep, file, polVars, algVars, redVars, cursesVars>>

InitPrint ==
    /\ platform = "unix"
    /\ con = NoCon
    /\ \E importOk \in BOOLEAN, _cols \in {-1, 16} :
          /\ binding = ImportBinding("unix", importOk, _cols, FALSE)
          /\ cols = IF importOk THEN _cols ELSE 0
    /\ _useColorFlag = C_COLOR_AUTO
    /\ ansiForced = FALSE
    /\ q = NoQuery
    /\ args \in ArgLists
    /\ sep \in Seps
    /\ file \in PrintFiles
    /\ called = FALSE
    /\ used = FALSE
    /\ log = <<>>
    /\ raised = FALSE
    /\ AlgIdle
    /\ RedIdle
    /\ RenderIdle

NextPrint ==
    \/ EnableColorPrinting
    \/ Printc

SpecPrint == InitPrint /\ [][NextPrint]_vars

\* ------------------------------------------------------------------ claims

\* C1: for every i in 0..7, fg(i) + C_BRIGHT is the colour i+8 with bg
\* unset and no flag set: the brightness is folded into the index.
C1_BrightFoldsIntoIndex ==
    \A i \in 0..7 :
        (op = "add" /\ a = fg(i, "None") /\ b = C_BRIGHT)
            => res = make(i + 8, None, {})

C1_Witness ==
    op = "add" /\ a = fg(3, "None") /\ b = C_BRIGHT /\ res.fg = 11

\* C2: + is not associative: for every i in 0..7, (fg(i) + C_BRIGHT) +
\* C_BRIGHT is colour i+8 with C_BRIGHT_FLAG set, and fg(i) + (C_BRIGHT +
\* C_BRIGHT) is colour i+8 with no flag set.
C2_BrightNotAssociative ==
    \A i \in 0..7 :
        /\ (op = "add" /\ a = _add(fg(i, "None"), C_BRIGHT) /\ b = C_BRIGHT)
               => res = make(i + 8, None, {C_BRIGHT_FLAG})
        /\ (op = "add" /\ a = fg(i, "None") /\ b = _add(C_BRIGHT, C_BRIGHT))
               => res = make(i + 8, None, {})

C2_Witness ==
    /\ op = "add"
    /\ a = make(10, None, {})
    /\ a = _add(fg(2, "None"), C_BRIGHT)
    /\ b = C_BRIGHT
    /\ res = make(10, None, {C_BRIGHT_FLAG})
    /\ res # _add(fg(2, "None"), _add(C_BRIGHT, C_BRIGHT))

\* C3: a + b with _C_RESET_ALL_FLAG in b is the pure reset value, whatever
\* a and the other fields of b are.
C3_ResetAllDominates ==
    (op = "add" /\ _C_RESET_ALL_FLAG \in b.flag)
        => res = make(None, None, {_C_RESET_ALL_FLAG})

C3_Witness ==
    /\ op = "add"
    /\ a = make(3, 1, {C_BRIGHT_FLAG, _C_RESET_BG_FLAG})
    /\ b = make(2, 1, {_C_RESET_ALL_FLAG, C_BRIGHT_FLAG})
    /\ res = C_RESET

\* C4: C_RESET_BRIGHT undoes the bright fold: for every i in 0..7,
\* (fg(i) + C_BRIGHT) + C_RESET_BRIGHT equals fg(i), with no flag set.
C4_ResetBrightUndoesFold ==
    \A i \in 0..7 :
        (op = "add" /\ a = _add(fg(i, "None"), C_BRIGHT) /\ b = C_RESET_BRIGHT)
            => res = fg(i, "None")

C4_Witness ==
    /\ op = "add"
    /\ a = make(9, None, {})
    /\ a = _add(fg(1, "None"), C_BRIGHT)
    /\ b = C_RESET_BRIGHT
    /\ res = make(1, None, {})

\* C5: + is not commutative: C_BRIGHT + fg(2) keeps colour 2 with
\* C_BRIGHT_FLAG set, fg(2) + C_BRIGHT is colour 10 with no flag set.
C5_BrightNotCommutative ==
    /\ (op = "add" /\ a = C_BRIGHT /\ b = fg(2, "None"))
           => (res = make(2, None, {C_BRIGHT_FLAG}) /\ res # _add(b, a))
    /\ (op = "add" /\ a = fg(2, "None") /\ b = C_BRIGHT)
           => (res = make(10, None, {}) /\ res # _add(b, a))

C5_Witness ==
    /\ op = "add"
    /\ a = C_BRIGHT
    /\ b = fg(2, "None")
    /\ res.fg = 2
    /\ C_BRIGHT_FLAG \in res.flag

\* C6: for every Color c, c.bright() equals c + C_BRIGHT field for field;
\* C_RESET.bright() is C_BRIGHT.
C6_BrightIsAddBright ==
    op = "bright" => res = _add(a, C_BRIGHT)

\* C7: every Color with _C_RESET_ALL_FLAG set has fg unset, bg unset and
\* no other flag set, among the operands and results reachable from the
\* public constructors and singletons.
C7_ResetAllIsPure ==
    \A c \in {a, b, res} :
        (c.exc = "none" /\ _C_RESET_ALL_FLAG \in c.flag) => c = C_RESET

\* C8: a == b never fails and is true exactly when fg, bg and flag agree.
C8_EqIsFieldwise ==
    op = "eq" => /\ res.exc = "none"
                 /\ eqv = (a.fg = b.fg /\ a.bg = b.bg /\ a.flag = b.flag)

\* C9: for every packed 24-bit x, _reduce_16(_reduce_256(x)) equals
\* _reduce_16(x).
C9_Reduce16ViaPalette ==
    (r16 # None /\ r16via # None) => r16via = r16

\* C10: with at most 16 colours declared by the curses backend, the index
\* handed to setaf or setab is below 16.
C10_CursesIndexBelow16 ==
    cols <= 16 =>
        \A k \in DOMAIN emitted :
            emitted[k].cap \in {"setaf", "setab"} => emitted[k].arg < 16

\* C16: a + C_RESET_BRIGHT is defined for every Color a and raises no
\* error: C_BRIGHT_FLAG of a is cleared; else an fg in 8..15 is folded down
\* by 8; otherwise fg is kept and _C_RESET_BRIGHT_FLAG is set on the result.
C16_ResetBrightDefined ==
    (op = "add" /\ b = C_RESET_BRIGHT) =>
        /\ res.exc = "none"
        /\ IF C_BRIGHT_FLAG \in a.flag
           THEN C_BRIGHT_FLAG \notin res.flag /\ res.fg = a.fg
           ELSE IF a.fg # None /\ 8 <= a.fg /\ a.fg < 16
           THEN res.fg = a.fg - 8
           ELSE res.fg = a.fg /\ _C_RESET_BRIGHT_FLAG \in res.flag

\* C17: in every Color reachable from the public constructors and
\* singletons, _C_RESET_FG_FLAG set implies fg unset and _C_RESET_BG_FLAG
\* set implies bg unset.
C17_ResetColourExcludesColour ==
    \A c \in {a, b, res} :
        c.exc = "none" =>
            /\ _C_RESET_FG_FLAG \in c.flag => c.fg = None
            /\ _C_RESET_BG_FLAG \in c.flag => c.bg = None

\* C18: in every Color reachable from the public constructors and
\* singletons, C_BRIGHT_FLAG and _C_RESET_BRIGHT_FLAG are never both set.
C18_BrightnessFlagsExclusive ==
    \A c \in {a, b, res} :
        ~(C_BRIGHT_FLAG \in c.flag /\ _C_RESET_BRIGHT_FLAG \in c.flag)

C18_Witness ==
    /\ op = "add"
    /\ a = C_RESET_BRIGHT
    /\ b = C_BRIGHT
    /\ res = make(None, None, {C_BRIGHT_FLAG})

\* C11 as stated: willPrintColor(file) is false under off; under on it
\* is true exactly when canPrintColor(file); under auto it is true exactly
\* when the file is an interactive console.
C11_WillPrintFollowsPolicy ==
    q.fn = "willPrintColor" =>
        /\ _useColorFlag = C_COLOR_OFF => ~q.bool
        /\ _useColorFlag = C_COLOR_ON => (q.bool = canPrintColor(q.file))
        /\ _useColorFlag = C_COLOR_AUTO => (q.bool = _istty(q.file))

\* C11 amended: willPrintColor(file) is false under off; under on it is
\* true exactly when canPrintColor(file); under auto it is true exactly
\* when canPrintColor(file) and the file is an interactive console.
C11_WillPrintNeedsCanPrint ==
    q.fn = "willPrintColor" =>
        /\ _useColorFlag = C_COLOR_OFF => ~q.bool
        /\ _useColorFlag = C_COLOR_ON => (q.bool = canPrintColor(q.file))
        /\ _useColorFlag = C_COLOR_AUTO =>
               (q.bool = (canPrintColor(q.file) /\ _istty(q.file)))

C11_Witness ==
    /\ q.fn = "willPrintColor"
    /\ binding = "curses"
    /\ cols < 8
    /\ _useColorFlag = C_COLOR_AUTO
    /\ _istty(q.file)
    /\ ~q.bool

C12_PlainIsPrint ==
    (called /\ ~used) =>
        LET idx == {i \in 1..Len(args) : args[i].kind = "value"}
            cnt == Cardinality(idx)
            val(j) == args[CHOOSE i \in idx :
                              Cardinality({m \in idx : m <= i}) = j]
            bad == {j \in 1..cnt : val(j).fails}
            k == IF bad = {} THEN cnt + 1
                 ELSE CHOOSE j \in bad : \A m \in bad : j <= m
        IN  /\ raised = (k <= cnt)
            /\ Len(log) = IF k <= cnt THEN 2 * (k - 1)
                          ELSE IF cnt = 0 THEN 1 ELSE 2 * cnt
            /\ \A p \in 1..Len(log) :
                  /\ log[p].ev # "set_color"
                  /\ IF k > cnt /\ p = Len(log)
                     THEN log[p].ev = "end" /\ log[p].s = End
                     ELSE IF p % 2 = 1
                     THEN log[p].ev = "text" /\ log[p].s = val((p + 1) \div 2).text
                     ELSE log[p].ev = "sep" /\ log[p].s = sep

C12_Witness ==
    /\ called
    /\ ~used
    /\ ~raised
    /\ \E i \in 1..Len(args) : args[i].kind = "color"
    /\ Len(log) = 4
    /\ log[1].s = "y"
    /\ log[3].s = "x"

\* the loop of printc gets as far as argument i
Reached(i) ==
    \A j \in 1..(i - 1) :
        ~(args[j].fails /\ (args[j].kind = "value" \/ __bool__(args[j].c)))

\* the separator is written for argument i, directly before its text
SepBefore(i) ==
    \E p \in 1..Len(log) :
        /\ log[p] = SepEv(i, sep)
        /\ IF args[i].fails THEN p = Len(log) - 1
           ELSE p < Len(log) /\ log[p + 1] = TextEv(i, args[i].text)

\* C13 as stated: in coloured mode the separator is emitted before a
\* plain value exactly when an earlier plain value has been emitted and
\* no Color entry lies between that value and this one.
C13_SepSuppressedAfterColor ==
    (called /\ used) =>
        \A i \in 1..Len(args) :
            (args[i].kind = "value" /\ Reached(i)) =>
                (SepBefore(i) <=> (i > 1 /\ args[i - 1].kind = "value"))

\* C13 amended: in coloured mode the separator is emitted before a plain
\* value exactly when an earlier plain value of the same call has been
\* emitted, whether or not Color entries lie between the two.
C13_SepBetweenValues ==
    (called /\ used) =>
        \A i \in 1..Len(args) :
            (args[i].kind = "value" /\ Reached(i)) =>
                (SepBefore(i) <=> \E j \in 1..(i - 1) : args[j].kind = "value")

C13_Witness ==
    /\ called
    /\ used
    /\ \E i \in 3..Len(args) :
          /\ Reached(i)
          /\ args[i].kind = "value"
          /\ args[i - 1].kind = "color"
          /\ __bool__(args[i - 1].c)
          /\ args[i - 2].kind = "value"
          /\ SepBefore(i)

\* C14: in coloured mode every call of printc emits the reset
\* _set_color(C_RESET) after all argument events, also when emitting an
\* argument raises; no colour change follows the reset; the terminator
\* follows the reset directly on the normal path and is not written when
\* the call raises.
C14_ResetThenEnd ==
    (called /\ used) =>
        /\ raised = (\E i \in 1..Len(args) : ~Reached(i + 1))
        /\ \E k \in 1..Len(log) :
              /\ log[k] = SetColorEv(0, C_RESET)
              /\ \A p \in 1..(k - 1) : log[p].arg >= 1 /\ log[p].ev # "end"
              /\ \A p \in (k + 1)..Len(log) : log[p].ev # "set_color"
              /\ IF raised THEN k = Len(log)
                 ELSE Len(log) = k + 1 /\ log[k + 1] = EndEv

C14_Witness ==
    /\ called
    /\ used
    /\ raised
    /\ Len(log) >= 3
    /\ log[Len(log)] = SetColorEv(0, C_RESET)
    /\ log[1].ev = "set_color"

====
